---- MODULE Spec2Model ----
(***************************************************************************)
(* Model of the picture-compare service: the Hamming distance of two hex  *)
(* strings (src/src/index.ts), the ImageService operations                *)
(* (src/src/services/imageService.ts) and the four POST routes            *)
(* (src/src/routes/imageRoutes.ts).                                       *)
(*                                                                         *)
(* Every request is stateless, so a behaviour is a sequence of            *)
(* independent operations.  The state holds the last operation (req), its *)
(* answer (resp) and the calls it made on the way (calls).                *)
(*                                                                         *)
(* Representation.  A JavaScript string is a sequence of one-character    *)
(* strings.  A JSON / JavaScript value is a record tagged by its typeof   *)
(* class (field t).  A number is an exact fraction num/den (den > 0) or   *)
(* NaN; every number the program computes here is an integer or an        *)
(* integer divided by 256, which binary64 holds exactly.                  *)
(***************************************************************************)
EXTENDS Integers, Sequences, FiniteSets, TLC

VARIABLES req, resp, calls

vars == <<req, resp, calls>>

----------------------------------------------------------------------------
\* Bounds of the model.

\* longest candidate list of a batch comparison that is enumerated in full
MaxCandidates == 2
\* longest upload of a batch hash that is enumerated in full
MaxFiles == 3
\* longest hex string handed directly to calculateHammingDistance
MaxHexLen == 2

----------------------------------------------------------------------------
\* Program constants.

\* {64} of the pattern in isValidHash
HashLen == 64
\* divisor of the similarity in compareImageHashes
TotalBits == 256
\* default of the threshold parameter
DefaultThreshold == 10
\* maxCount of upload.array("images", 1000)
MulterMaxCount == 1000
\* MAX_FILES of the hash-batch route
MAX_FILES == 1000
\* "max 100 files" of the README
ReadmeMaxFiles == 100

----------------------------------------------------------------------------
\* JavaScript values.

Undefined == [t |-> "undefined"]
Null == [t |-> "null"]
Bool(b) == [t |-> "boolean", b |-> b]
Frac(n, d) == [t |-> "number", nan |-> FALSE, num |-> n, den |-> d]
Num(n) == Frac(n, 1)
NaN == [t |-> "number", nan |-> TRUE, num |-> 0, den |-> 1]
Str(s) == [t |-> "string", s |-> s]
Arr(a) == [t |-> "array", a |-> a]

RECURSIVE Gcd(_, _)
Gcd(a, b) == IF b = 0 THEN a ELSE Gcd(b, a % b)

Abs(n) == IF n < 0 THEN -n ELSE n

\* the fraction n/d in lowest terms with a positive denominator
Norm(n, d) ==
    LET g == Gcd(Abs(n), Abs(d))
        s == IF d < 0 THEN -1 ELSE 1
    IN  Frac(s * (n \div g), s * (d \div g))

\* x / y and x - y of two numbers (y # 0 wherever the program divides)
NumDiv(x, y) ==
    IF x.nan \/ y.nan \/ y.num = 0 THEN NaN
    ELSE Norm(x.num * y.den, x.den * y.num)

NumSub(x, y) ==
    IF x.nan \/ y.nan THEN NaN
    ELSE Norm(x.num * y.den - y.num * x.den, x.den * y.den)

Rep(c, n) == [i \in 1..n |-> c]

Digits == <<"0", "1", "2", "3", "4", "5", "6", "7", "8", "9">>

IsDigit(c) == \E i \in 1..10 : Digits[i] = c

DigitValue(c) == (CHOOSE i \in 1..10 : Digits[i] = c) - 1

RECURSIVE DecimalValue(_)
DecimalValue(s) ==
    IF s = <<>> THEN 0
    ELSE 10 * DecimalValue(SubSeq(s, 1, Len(s) - 1)) + DigitValue(s[Len(s)])

\* ToNumber of a string: "" is 0, an optionally signed run of decimal digits
\* is its value, and every other string of the pools below is NaN (none of
\* them has white space, a fraction, an exponent, a radix prefix or
\* "Infinity").
StringToNumber(s) ==
    LET signed == Len(s) > 0 /\ s[1] \in {"-", "+"}
        body == IF signed THEN Tail(s) ELSE s
    IN  IF s = <<>> THEN Num(0)
        ELSE IF body # <<>> /\ \A i \in 1..Len(body) : IsDigit(body[i])
             THEN Num((IF s[1] = "-" THEN -1 ELSE 1) * DecimalValue(body))
             ELSE NaN

\* Array.prototype.join(",") over elements that are strings, null or
\* undefined (the only elements of the arrays used as thresholds)
RECURSIVE JoinComma(_)
JoinComma(a) ==
    LET el(v) == IF v.t = "string" THEN v.s ELSE <<>>
    IN  IF a = <<>> THEN <<>>
        ELSE IF Len(a) = 1 THEN el(a[1])
        ELSE el(a[1]) \o <<",">> \o JoinComma(Tail(a))

\* ToNumber, as the relational operators apply it to a non-number operand
ToNumber(v) ==
    CASE v.t = "number" -> v
      [] v.t = "undefined" -> NaN
      [] v.t = "null" -> Num(0)
      [] v.t = "boolean" -> IF v.b THEN Num(1) ELSE Num(0)
      [] v.t = "string" -> StringToNumber(v.s)
      [] v.t = "array" -> StringToNumber(JoinComma(v.a))
      [] OTHER -> NaN

\* x < y and x <= y of JavaScript (no operand here is a pair of strings)
JsLess(x, y) ==
    LET a == ToNumber(x)
        b == ToNumber(y)
    IN  ~a.nan /\ ~b.nan /\ a.num * b.den < b.num * a.den

JsLessEq(x, y) ==
    LET a == ToNumber(x)
        b == ToNumber(y)
    IN  ~a.nan /\ ~b.nan /\ a.num * b.den <= b.num * a.den

\* ToBoolean
Truthy(v) ==
    CASE v.t = "undefined" -> FALSE
      [] v.t = "null" -> FALSE
      [] v.t = "boolean" -> v.b
      [] v.t = "number" -> ~v.nan /\ v.num # 0
      [] v.t = "string" -> v.s # <<>>
      [] OTHER -> TRUE

\* Number.isNaN: no coercion, true of the number NaN only
NumberIsNaN(v) == v.t = "number" /\ v.nan

\* a destructuring or parameter default applies to undefined only
WithDefault(v, d) == IF v.t = "undefined" THEN d ELSE v

----------------------------------------------------------------------------
\* src/src/index.ts: the Hamming distance of two hex strings.

\* parseInt(char, 16) of a single character: its value, or NaN
ParseIntHex(c) ==
    LET lower == <<"a", "b", "c", "d", "e", "f">>
        upper == <<"A", "B", "C", "D", "E", "F">>
    IN  IF IsDigit(c) THEN Num(DigitValue(c))
        ELSE IF \E i \in 1..6 : lower[i] = c
             THEN Num(9 + CHOOSE i \in 1..6 : lower[i] = c)
        ELSE IF \E i \in 1..6 : upper[i] = c
             THEN Num(9 + CHOOSE i \in 1..6 : upper[i] = c)
        ELSE NaN

\* Number.prototype.toString(2) of a non-negative integer or NaN
RECURSIVE BinaryDigits(_)
BinaryDigits(n) ==
    IF n < 2 THEN <<Digits[n + 1]>>
    ELSE BinaryDigits(n \div 2) \o <<Digits[(n % 2) + 1]>>

ToString2(v) == IF v.nan THEN <<"N", "a", "N">> ELSE BinaryDigits(v.num)

\* PadStart4 without the padding: decimal.toString(2) alone
PadStart4_Unpadded(s) == s

\* String.prototype.padStart(4, "0")
PadStart4(s) == IF Len(s) >= 4 THEN s ELSE Rep("0", 4 - Len(s)) \o s

\* the loop of hexToBinary: binary after the characters hex[i], hex[i+1], ...
\* have been appended to it
RECURSIVE HexLoop(_, _, _)
HexLoop(hex, i, binary) ==
    IF i > Len(hex) THEN binary
    ELSE HexLoop(hex, i + 1, binary \o PadStart4(ToString2(ParseIntHex(hex[i]))))

hexToBinary(hex) == HexLoop(hex, 1, <<>>)

SameLengthError == "Hashes must have the same length"

\* CountMismatches counting only the bits set in binary1 and clear in binary2
CountMismatches_OneSided(binary1, binary2) ==
    Cardinality({i \in 1..Len(binary1) :
                    i <= Len(binary2) /\ binary1[i] = "1" /\ binary2[i] = "0"})

\* the loop of calculateHammingDistance over the two binary strings; an
\* index past the end of binary2 reads undefined, which differs from a
\* character
CountMismatches(binary1, binary2) ==
    Cardinality({i \in 1..Len(binary1) :
                    i > Len(binary2) \/ binary1[i] # binary2[i]})

\* threw: the call ended in throw new Error(error); otherwise it returned value
calculateHammingDistance(hash1, hash2) ==
    IF Len(hash1) # Len(hash2)
    THEN [threw |-> TRUE, error |-> SameLengthError, value |-> 0]
    ELSE [threw |-> FALSE, error |-> "",
          value |-> CountMismatches(hexToBinary(hash1), hexToBinary(hash2))]

----------------------------------------------------------------------------
\* src/src/services/imageService.ts: ImageService.

\* the character class [0-9a-fA-F]
HexClass ==
    {"0", "1", "2", "3", "4", "5", "6", "7", "8", "9",
     "a", "b", "c", "d", "e", "f", "A", "B", "C", "D", "E", "F"}

\* isValidHash with the pattern ^.{64}$: the length alone
isValidHash_LengthOnly(hash) == Len(hash) = HashLen

\* isValidHash with the pattern ^[0-9a-fA-F]+$: the character class alone
isValidHash_AnyLength(hash) ==
    Len(hash) > 0 /\ \A i \in 1..Len(hash) : hash[i] \in HexClass

\* /^[0-9a-fA-F]{64}$/.test(hash); without the m flag $ is the end of input
isValidHash(hash) ==
    Len(hash) = HashLen /\ \A i \in 1..Len(hash) : hash[i] \in HexClass

InvalidFormatError == "Invalid hash format. Expected 64-character hex string."

HammingCall(hash1, hash2) ==
    [fn |-> "calculateHammingDistance", a |-> hash1, b |-> hash2]

\* the failure result of compareImageHashes
ComparisonFailure(message) ==
    [distance |-> -1, isSimilar |-> FALSE, success |-> FALSE,
     similarity |-> Num(1), error |-> message]

\* ComparisonOf with distance < threshold
ComparisonOf_Strict(hd, threshold) ==
    IF hd.threw THEN ComparisonFailure(hd.error)
    ELSE [distance |-> hd.value,
          isSimilar |-> JsLess(Num(hd.value), threshold),
          similarity |-> NumSub(Num(1), NumDiv(Num(hd.value), Num(TotalBits))),
          success |-> TRUE]

\* lines 73-82 and the catch clause of compareImageHashes, given the
\* outcome hd of the call of calculateHammingDistance
ComparisonOf(hd, threshold) ==
    IF hd.threw THEN ComparisonFailure(hd.error)
    ELSE [distance |-> hd.value,
          isSimilar |-> JsLessEq(Num(hd.value), threshold),
          similarity |-> NumSub(Num(1), NumDiv(Num(hd.value), Num(TotalBits))),
          success |-> TRUE]

\* result: the ImageComparisonResult returned (the method never throws);
\* hamming: the calls of calculateHammingDistance it made
compareImageHashes(hash1, hash2, thresholdArg) ==
    IF ~isValidHash(hash1) \/ ~isValidHash(hash2)
    THEN [result |-> ComparisonFailure(InvalidFormatError), hamming |-> <<>>]
    ELSE [result |-> ComparisonOf(calculateHammingDistance(hash1, hash2),
                                  WithDefault(thresholdArg, Num(DefaultThreshold))),
          hamming |-> <<HammingCall(hash1, hash2)>>]

RECURSIVE Flatten(_)
Flatten(ss) == IF ss = <<>> THEN <<>> ELSE Head(ss) \o Flatten(Tail(ss))

\* the entry the map callback of compareHashWithCandidates builds from a
\* candidate and its comparison
BatchEntry(hash, comparison) ==
    [hash |-> hash, distance |-> comparison.distance,
     isSimilar |-> comparison.isSimilar, similarity |-> comparison.similarity]

\* the filter and the map of compareHashWithCandidates: for each candidate
\* kept, the entry and the calls of calculateHammingDistance behind it
Mapped(hash, c) == [entry |-> BatchEntry(hash, c.result), hamming |-> c.hamming]

\* FilterMap returning the entries in reverse order
FilterMap_Reversed(targetHash, kept, threshold) ==
    [i \in 1..Len(kept) |->
        Mapped(kept[Len(kept) + 1 - i],
               compareImageHashes(targetHash, kept[Len(kept) + 1 - i], threshold))]

FilterMap(targetHash, kept, threshold) ==
    [i \in 1..Len(kept) |->
        Mapped(kept[i], compareImageHashes(targetHash, kept[i], threshold))]

BatchOf(mapped) ==
    [result |-> [i \in 1..Len(mapped) |-> mapped[i].entry],
     hamming |-> Flatten([i \in 1..Len(mapped) |-> mapped[i].hamming])]

\* compareHashWithCandidates without the check of the target
compareHashWithCandidates_NoTargetCheck(targetHash, candidateHashes, thresholdArg) ==
    BatchOf(FilterMap(targetHash, SelectSeq(candidateHashes, isValidHash),
                      WithDefault(thresholdArg, Num(DefaultThreshold))))

\* result: the BatchComparisonResult[] returned; hamming as above
compareHashWithCandidates(targetHash, candidateHashes, thresholdArg) ==
    IF ~isValidHash(targetHash)
    THEN [result |-> <<>>, hamming |-> <<>>]
    ELSE BatchOf(FilterMap(targetHash, SelectSeq(candidateHashes, isValidHash),
                           WithDefault(thresholdArg, Num(DefaultThreshold))))

\* An image buffer is what it makes the two libraries do: sharp(...).toBuffer()
\* and hashImage(...) each resolve ("ok"), reject with an Error ("Error",
\* with its message) or reject with a value that is no Error ("other").
\* hash is what hashImage resolves to.
Thrown(outcome) == outcome # "ok"

\* the catch clause: error instanceof Error ? error.message : "Unknown error"
CaughtMessage(outcome, message) ==
    IF outcome = "Error" THEN message ELSE "Unknown error"

\* calculateImageHash without its try/catch: a failure of a library rejects
calculateImageHash_NoCatch(imageBuffer) ==
    IF Thrown(imageBuffer.sharp) \/ Thrown(imageBuffer.hashing)
    THEN [rejected |-> TRUE,
          value |-> [hash |-> <<>>, success |-> FALSE, error |-> "rejected"]]
    ELSE [rejected |-> FALSE,
          value |-> [hash |-> imageBuffer.hash, success |-> TRUE]]

\* rejected: the promise rejects; otherwise it resolves to value
calculateImageHash(imageBuffer) ==
    IF Thrown(imageBuffer.sharp)
    THEN [rejected |-> FALSE,
          value |-> [hash |-> <<>>, success |-> FALSE,
                     error |-> CaughtMessage(imageBuffer.sharp, imageBuffer.sharpMessage)]]
    ELSE IF Thrown(imageBuffer.hashing)
    THEN [rejected |-> FALSE,
          value |-> [hash |-> <<>>, success |-> FALSE,
                     error |-> CaughtMessage(imageBuffer.hashing, imageBuffer.hashMessage)]]
    ELSE [rejected |-> FALSE,
          value |-> [hash |-> imageBuffer.hash, success |-> TRUE]]

\* ImageService.calculateBatchImageHashes is called by the hash-batch route
\* and is not part of the source at hand.  It is modelled from the design:
\* the single-image path applied to each item independently, one entry per
\* item at the item's input position with its filename, and the three
\* counts.  A rejection of a per-item promise rejects the batch.
calculateBatchImageHashes(files) ==
    LET one(i) == calculateImageHash(files[i].buffer)
        results ==
            [i \in 1..Len(files) |->
                IF one(i).value.success
                THEN [filename |-> files[i].filename, hash |-> one(i).value.hash,
                      success |-> TRUE]
                ELSE [filename |-> files[i].filename, hash |-> one(i).value.hash,
                      success |-> FALSE, error |-> one(i).value.error]]
        good == Cardinality({i \in 1..Len(files) : results[i].success})
    IN  IF \E i \in 1..Len(files) : one(i).rejected
        THEN [rejected |-> TRUE, error |-> "rejected"]
        ELSE [rejected |-> FALSE,
              value |-> [success |-> TRUE, results |-> results,
                         totalFiles |-> Len(files), successfulFiles |-> good,
                         failedFiles |-> Len(files) - good]]

----------------------------------------------------------------------------
\* src/src/routes/imageRoutes.ts: the upload middleware and the routes.

Reply(status, body) == [status |-> status, body |-> body]

Failure(status, message) == Reply(status, [success |-> FALSE, error |-> message])

StartsWith(s, prefix) ==
    Len(s) >= Len(prefix) /\ SubSeq(s, 1, Len(prefix)) = prefix

ImagePrefix == <<"i", "m", "a", "g", "e", "/">>

\* fileFilter: file.mimetype.startsWith("image/")
fileFilter(file) == StartsWith(file.mimetype, ImagePrefix)

\* What multer makes of the parts of one field, in arrival order, under a
\* maxCount: the first part past maxCount, or refused by fileFilter, ends the
\* upload with MulterError LIMIT_UNEXPECTED_FILE; the first part over the
\* fileSize limit with LIMIT_FILE_SIZE.  "" when every part is stored.
MulterError(parts, maxCount) ==
    LET refused == {i \in 1..Len(parts) :
                       i > maxCount \/ ~fileFilter(parts[i]) \/ parts[i].oversize}
        first == CHOOSE i \in refused : \A j \in refused : i <= j
    IN  IF refused = {} THEN ""
        ELSE IF first > maxCount \/ ~fileFilter(parts[first]) THEN "Unexpected field"
        ELSE "File too large"

\* imageUpload(): upload.single("image") and its error callback.  next: the
\* route runs, with req.file the stored part if there is one.
imageUpload(parts) ==
    LET err == MulterError(parts, 1)
    IN  IF err # "" THEN [next |-> FALSE, reply |-> Failure(400, err)]
        ELSE [next |-> TRUE, files |-> parts]

\* batchImageUpload(): upload.array("images", 1000) and its error callback
batchImageUpload(parts) ==
    LET err == MulterError(parts, MulterMaxCount)
    IN  IF err # "" THEN [next |-> FALSE, reply |-> Failure(400, err)]
        ELSE [next |-> TRUE, files |-> parts]

ImageHashCall(index) == [fn |-> "calculateImageHash", index |-> index]

\* router.post("/hash"): reply and the service calls made
PostHash(multipart, parts) ==
    LET up == imageUpload(parts)
        result == calculateImageHash(parts[1].buffer)
    IN  IF multipart /\ ~up.next THEN [reply |-> up.reply, calls |-> <<>>]
        ELSE IF ~multipart \/ parts = <<>>
        THEN [reply |-> Failure(400, "Image not uploaded"), calls |-> <<>>]
        ELSE IF result.rejected
        THEN [reply |-> Failure(500, "rejected"), calls |-> <<ImageHashCall(0)>>]
        ELSE IF ~result.value.success
        THEN [reply |-> Failure(400, result.value.error),
              calls |-> <<ImageHashCall(0)>>]
        ELSE [reply |-> Reply(200, [success |-> TRUE, hash |-> result.value.hash]),
              calls |-> <<ImageHashCall(0)>>]

ServiceCall(name) == [fn |-> name]

\* router.post("/compare")
PostCompare(body) ==
    LET hash1 == body.hash1
        hash2 == body.hash2
        threshold == WithDefault(body.threshold, Num(DefaultThreshold))
        r == compareImageHashes(hash1.s, hash2.s, threshold)
    IN  IF ~Truthy(hash1) \/ ~Truthy(hash2)
        THEN [reply |-> Failure(400, "Two hashes must be provided (hash1 and hash2)"),
              calls |-> <<>>]
        ELSE IF hash1.t # "string" \/ hash2.t # "string"
        THEN [reply |-> Failure(400, "Hashes must be strings"), calls |-> <<>>]
        ELSE IF NumberIsNaN(threshold) \/ JsLess(threshold, Num(0))
        THEN [reply |-> Failure(400, "Threshold must be a positive number"),
              calls |-> <<>>]
        ELSE IF ~r.result.success
        THEN [reply |-> Failure(400, r.result.error),
              calls |-> <<ServiceCall("compareImageHashes")>> \o r.hamming]
        ELSE [reply |-> Reply(200, [success |-> TRUE,
                                    distance |-> r.result.distance,
                                    isSimilar |-> r.result.isSimilar,
                                    similarity |-> r.result.similarity]),
              calls |-> <<ServiceCall("compareImageHashes")>> \o r.hamming]

\* router.post("/compare-batch")
PostCompareBatch(body) ==
    LET targetHash == body.targetHash
        candidateHashes == body.candidateHashes
        threshold == WithDefault(body.threshold, Num(DefaultThreshold))
        strings == [i \in 1..Len(candidateHashes.a) |-> candidateHashes.a[i].s]
        r == compareHashWithCandidates(targetHash.s, strings, threshold)
    IN  IF ~Truthy(targetHash) \/ ~Truthy(candidateHashes)
        THEN [reply |-> Failure(400, "Target hash and candidate hashes array must be provided"),
              calls |-> <<>>]
        ELSE IF targetHash.t # "string"
        THEN [reply |-> Failure(400, "Target hash must be a string"), calls |-> <<>>]
        ELSE IF candidateHashes.t # "array"
        THEN [reply |-> Failure(400, "Candidate hashes must be an array"),
              calls |-> <<>>]
        ELSE IF Len(candidateHashes.a) = 0
        THEN [reply |-> Failure(400, "Candidate hashes array cannot be empty"),
              calls |-> <<>>]
        ELSE IF ~\A i \in 1..Len(candidateHashes.a) : candidateHashes.a[i].t = "string"
        THEN [reply |-> Failure(400, "All candidate hashes must be strings"),
              calls |-> <<>>]
        ELSE IF NumberIsNaN(threshold) \/ JsLess(threshold, Num(0))
        THEN [reply |-> Failure(400, "Threshold must be a positive number"),
              calls |-> <<>>]
        ELSE [reply |-> Reply(200, [success |-> TRUE,
                                    results |-> r.result,
                                    totalCandidates |-> Len(candidateHashes.a),
                                    validCandidates |-> Len(r.result)]),
              calls |-> <<ServiceCall("compareHashWithCandidates")>> \o r.hamming]

\* file.originalname || `file_${Date.now()}_${index}`, index counted from 0
Filename(file, now, index) ==
    IF file.originalname # "" THEN file.originalname
    ELSE "file_" \o ToString(now) \o "_" \o ToString(index)

\* router.post("/hash-batch"); now is what Date.now() returns
PostHashBatch(multipart, parts, now) ==
    LET up == batchImageUpload(parts)
        files == [i \in 1..Len(parts) |->
                     [buffer |-> parts[i].buffer,
                      filename |-> Filename(parts[i], now, i - 1)]]
        result == calculateBatchImageHashes(files)
        hashed == [i \in 1..Len(files) |-> ImageHashCall(i - 1)]
    IN  IF multipart /\ ~up.next THEN [reply |-> up.reply, calls |-> <<>>]
        ELSE IF ~multipart
        THEN [reply |-> Failure(400, "No files uploaded or invalid file format"),
              calls |-> <<>>]
        ELSE IF Len(parts) = 0
        THEN [reply |-> Failure(400, "At least one file must be uploaded"),
              calls |-> <<>>]
        ELSE IF Len(parts) > MAX_FILES
        THEN [reply |-> Failure(400, "Too many files. Maximum allowed: 1000"),
              calls |-> <<>>]
        ELSE IF result.rejected
        THEN [reply |-> Failure(500, result.error), calls |-> hashed]
        ELSE [reply |-> Reply(200, result.value), calls |-> hashed]

----------------------------------------------------------------------------
\* The inputs the operations are run on.

Seqs(S, n) == UNION {[1..k -> S] : k \in 0..n}

HexChars ==
    <<"0", "1", "2", "3", "4", "5", "6", "7", "8", "9", "a", "b",
      "c", "d", "e", "f", "A", "B", "C", "D", "E", "F">>

\* k copies of c, then "0" up to HashLen characters
Prefix(k, c) == Rep(c, k) \o Rep("0", HashLen - k)

AllZero == Rep("0", HashLen)
AllF == Rep("f", HashLen)
AllUpperF == Rep("F", HashLen)
\* differs from AllZero in 2, 10 and 11 bits
TwoBits == Rep("0", HashLen - 1) \o <<"3">>
TenBits == Prefix(10, "1")
ElevenBits == Prefix(11, "1")
\* every character of the class, in both cases
Mixed == [i \in 1..HashLen |-> HexChars[((i - 1) % 22) + 1]]

NotAHash == <<"n", "o", "t", "-", "a", "-", "h", "a", "s", "h">>
TooShort == Rep("0", HashLen - 1)
TooLong == Rep("0", HashLen + 1)
NonHex == Rep("0", HashLen - 1) \o <<"g">>

ValidHashes == {AllZero, AllF, AllUpperF, TwoBits, TenBits, ElevenBits, Mixed}

InvalidStrings == {<<>>, NotAHash, TooShort, TooLong, NonHex}

HashStrings == ValidHashes \cup InvalidStrings

NonStrings == {Undefined, Null, Num(0), Num(5), Arr(<<>>)}

\* values of a hash field of a JSON body
HashValues == {Str(h) : h \in HashStrings} \cup NonStrings

\* thresholds that are numbers
NumberThresholds ==
    {NaN, Num(-1), Frac(-1, 2), Num(0), Frac(1, 2), Num(2), Frac(5, 2), Num(9),
     Num(10), Frac(21, 2), Num(11), Num(255), Num(256)}

\* thresholds a JSON body can carry that are no numbers
OtherThresholds ==
    {Undefined, Null, Bool(TRUE), Bool(FALSE),
     Str(<<"a", "b", "c">>), Str(<<"-", "5">>), Str(<<"5">>), Str(<<>>),
     Arr(<<>>), Arr(<<Str(<<"-", "1">>)>>), Arr(<<Str(<<"a">>)>>)}

Thresholds == NumberThresholds \cup OtherThresholds

BatchThresholds ==
    {Undefined, Null, NaN, Num(-1), Num(0), Frac(5, 2), Num(50),
     Str(<<"a", "b", "c">>), Str(<<"-", "5">>), Arr(<<>>)}

BatchTargets ==
    {Str(AllZero), Str(AllF), Str(NotAHash), Str(<<>>), Undefined, Num(5)}

CandidateValues ==
    {Str(AllZero), Str(TwoBits), Str(AllUpperF), Str(NotAHash), Num(5)}

\* values of the candidateHashes field
CandidateLists ==
    {Undefined, Str(AllZero)} \cup {Arr(a) : a \in Seqs(CandidateValues, MaxCandidates)}

\* arguments of a direct call of compareHashWithCandidates
DirectTargets == {AllZero, AllF, NotAHash, <<>>, TooShort}

DirectCandidates ==
    Seqs({AllZero, TwoBits, ElevenBits, AllUpperF, NotAHash}, MaxCandidates)

DirectThresholds == {Undefined, Num(0), Frac(5, 2), Num(10)}

\* arguments of a direct call of calculateHammingDistance: every single
\* character, and the strings over a few characters up to MaxHexLen
ShortStrings ==
    [1..1 -> HexClass] \cup Seqs({"0", "7", "F", "g"}, MaxHexLen)

ImagePng == <<"i", "m", "a", "g", "e", "/", "p", "n", "g">>
TextPlain == <<"t", "e", "x", "t", "/", "p", "l", "a", "i", "n">>

Image(hash) ==
    [sharp |-> "ok", sharpMessage |-> "", hashing |-> "ok", hashMessage |-> "",
     hash |-> hash]

CorruptImage ==
    [sharp |-> "Error",
     sharpMessage |-> "Input buffer contains unsupported image format",
     hashing |-> "ok", hashMessage |-> "", hash |-> <<>>]

UnhashableImage ==
    [sharp |-> "ok", sharpMessage |-> "", hashing |-> "other", hashMessage |-> "",
     hash |-> <<>>]

Part(name, mimetype, oversize, buffer) ==
    [originalname |-> name, mimetype |-> mimetype, oversize |-> oversize,
     buffer |-> buffer]

GoodPart == Part("a.png", ImagePng, FALSE, Image(AllZero))
CorruptPart == Part("c.png", ImagePng, FALSE, CorruptImage)

Parts ==
    {GoodPart, CorruptPart,
     Part("b.png", ImagePng, FALSE, Image(AllF)),
     Part("d.png", ImagePng, FALSE, UnhashableImage),
     Part("", ImagePng, FALSE, Image(TwoBits)),
     Part("notes.txt", TextPlain, FALSE, CorruptImage),
     Part("big.png", ImagePng, TRUE, Image(Mixed))}

\* a long upload: every seventh part corrupt
LongUpload(n) == [i \in 1..n |-> IF i % 7 = 0 THEN CorruptPart ELSE GoodPart]

BatchUploads ==
    Seqs(Parts, MaxFiles)
    \cup {LongUpload(n) : n \in {ReadmeMaxFiles, ReadmeMaxFiles + 1,
                                 MulterMaxCount, MulterMaxCount + 1}}

\* values of Date.now() (any two distinct clock readings)
Clock == {1700000000, 1700000001}

----------------------------------------------------------------------------
\* The state machine: one action per route and per exported operation.

Init ==
    /\ req = [op |-> "none"]
    /\ resp = [status |-> 0]
    /\ calls = <<>>

Idle == req.op = "none"

HashRequest ==
    /\ Idle
    /\ \E multipart \in BOOLEAN, parts \in Seqs(Parts, 2) :
           LET out == PostHash(multipart, parts)
           IN  /\ multipart \/ parts = <<>>
               /\ req' = [op |-> "POST /hash", multipart |-> multipart, parts |-> parts]
               /\ resp' = out.reply
               /\ calls' = out.calls

CompareRequest ==
    /\ Idle
    /\ \E hash1 \in HashValues, hash2 \in HashValues, threshold \in Thresholds :
           LET body == [hash1 |-> hash1, hash2 |-> hash2, threshold |-> threshold]
               out == PostCompare(body)
           IN  /\ req' = [op |-> "POST /compare", body |-> body]
               /\ resp' = out.reply
               /\ calls' = out.calls

CompareBatchRequest ==
    /\ Idle
    /\ \E targetHash \in BatchTargets, candidateHashes \in CandidateLists,
          threshold \in BatchThresholds :
           LET body == [targetHash |-> targetHash, candidateHashes |-> candidateHashes,
                        threshold |-> threshold]
               out == PostCompareBatch(body)
           IN  /\ req' = [op |-> "POST /compare-batch", body |-> body]
               /\ resp' = out.reply
               /\ calls' = out.calls

HashBatchRequest ==
    /\ Idle
    /\ \E multipart \in BOOLEAN, parts \in BatchUploads, now \in Clock :
           LET out == PostHashBatch(multipart, parts, now)
           IN  /\ multipart \/ parts = <<>>
               /\ req' = [op |-> "POST /hash-batch", multipart |-> multipart,
                          parts |-> parts, now |-> now]
               /\ resp' = out.reply
               /\ calls' = out.calls

CallCalculateHammingDistance ==
    /\ Idle
    /\ \E hash1 \in ShortStrings \cup HashStrings, hash2 \in ShortStrings \cup HashStrings :
           /\ req' = [op |-> "calculateHammingDistance", hash1 |-> hash1, hash2 |-> hash2]
           /\ resp' = calculateHammingDistance(hash1, hash2)
           /\ calls' = <<HammingCall(hash1, hash2)>>

CallCompareImageHashes ==
    /\ Idle
    /\ \E hash1 \in HashStrings, hash2 \in HashStrings,
          threshold \in NumberThresholds \cup {Undefined} :
           LET out == compareImageHashes(hash1, hash2, threshold)
           IN  /\ req' = [op |-> "compareImageHashes", hash1 |-> hash1, hash2 |-> hash2,
                          threshold |-> threshold]
               /\ resp' = out.result
               /\ calls' = out.hamming

CallCompareHashWithCandidates ==
    /\ Idle
    /\ \E targetHash \in DirectTargets, candidateHashes \in DirectCandidates,
          threshold \in DirectThresholds :
           LET out == compareHashWithCandidates(targetHash, candidateHashes, threshold)
           IN  /\ req' = [op |-> "compareHashWithCandidates", targetHash |-> targetHash,
                          candidateHashes |-> candidateHashes, threshold |-> threshold]
               /\ resp' = [results |-> out.result]
               /\ calls' = out.hamming

CallCalculateImageHash ==
    /\ Idle
    /\ \E part \in Parts :
           /\ req' = [op |-> "calculateImageHash", imageBuffer |-> part.buffer]
           /\ resp' = calculateImageHash(part.buffer)
           /\ calls' = <<>>

\* the answer is delivered; nothing of the operation outlives it
Finish ==
    /\ ~Idle
    /\ req' = [op |-> "none"]
    /\ resp' = [status |-> 0]
    /\ calls' = <<>>

Next ==
    \/ HashRequest
    \/ CompareRequest
    \/ CompareBatchRequest
    \/ HashBatchRequest
    \/ CallCalculateHammingDistance
    \/ CallCompareImageHashes
    \/ CallCompareHashWithCandidates
    \/ CallCalculateImageHash
    \/ Finish

Spec == Init /\ [][Next]_vars

----------------------------------------------------------------------------
\* What the properties are stated with: the pattern and the bit count, written
\* independently of the program's own definitions.

\* s matches ^[0-9a-fA-F]{64}$
MatchesHexPattern(s) ==
    /\ Len(s) = 64
    /\ \A i \in 1..Len(s) : \E k \in 1..22 : HexChars[k] = s[i]

\* s is a string of hex digits
IsHexString(s) == \A i \in 1..Len(s) : \E k \in 1..22 : HexChars[k] = s[i]

\* the value of a hex digit, letters read case-insensitively
NibbleValue(c) ==
    LET k == CHOOSE j \in 1..22 : HexChars[j] = c
    IN  IF k > 16 THEN k - 7 ELSE k - 1

\* bit j (0 the most significant of 4) of the value v
NibbleBit(v, j) == (v \div (2 ^ (3 - j))) % 2

\* the number of bit positions at which the 4-bit-per-character expansions
\* of a and b differ
BitDifference(a, b) ==
    Cardinality({<<i, j>> \in (1..Len(a)) \X (0..3) :
        NibbleBit(NibbleValue(a[i]), j) # NibbleBit(NibbleValue(b[i]), j)})

HammingCalls == SelectSeq(calls, LAMBDA c : c.fn = "calculateHammingDistance")

\* a threshold the interface allows: absent, or a number >= 0
IsNonNegativeNumber(v) == v.t = "number" /\ ~v.nan /\ v.num >= 0

IsStringList(v) ==
    v.t = "array" /\ Len(v.a) > 0 /\ \A i \in 1..Len(v.a) : v.a[i].t = "string"

----------------------------------------------------------------------------
\* C1: a pair of strings of which at least one does not match the pattern is
\* answered by compareImageHashes with success = false and a non-empty error,
\* whatever the threshold, and by POST /compare with status 400 and
\* success = false; calculateHammingDistance is not called for the pair.
C1_InvalidPairRejected ==
    /\ (/\ req.op = "compareImageHashes"
        /\ ~MatchesHexPattern(req.hash1) \/ ~MatchesHexPattern(req.hash2))
       => /\ resp.success = FALSE
          /\ resp.error # ""
          /\ calls = <<>>
    /\ (/\ req.op = "POST /compare"
        /\ req.body.hash1.t = "string"
        /\ req.body.hash2.t = "string"
        /\ ~MatchesHexPattern(req.body.hash1.s) \/ ~MatchesHexPattern(req.body.hash2.s))
       => /\ resp.status = 400
          /\ resp.body.success = FALSE
          /\ HammingCalls = <<>>

\* POST /compare of a valid hash and a 64-character string with a letter
\* outside the class has been answered 400 by the service's own result
C1_Witness ==
    /\ req.op = "POST /compare"
    /\ req.body.hash1 = Str(AllZero)
    /\ req.body.hash2 = Str(NonHex)
    /\ req.body.threshold = Num(10)
    /\ resp.status = 400
    /\ resp.body.error = InvalidFormatError
    /\ calls = <<ServiceCall("compareImageHashes")>>

\* C2: for a valid target, compareHashWithCandidates returns one entry per
\* candidate matching the pattern, in input order with duplicates kept, each
\* with that candidate's hash; the answer of POST /compare-batch reports
\* totalCandidates = length of the submitted list and validCandidates =
\* number of entries returned.
C2_OneEntryPerValidCandidate ==
    /\ (req.op = "compareHashWithCandidates" /\ MatchesHexPattern(req.targetHash))
       => LET expected == SelectSeq(req.candidateHashes, MatchesHexPattern)
          IN  /\ Len(resp.results) = Len(expected)
              /\ \A i \in 1..Len(expected) : resp.results[i].hash = expected[i]
    /\ (req.op = "POST /compare-batch" /\ resp.status = 200)
       => /\ resp.body.totalCandidates = Len(req.body.candidateHashes.a)
          /\ resp.body.validCandidates = Len(resp.body.results)
          /\ MatchesHexPattern(req.body.targetHash.s)
             => LET given == [i \in 1..Len(req.body.candidateHashes.a) |->
                                 req.body.candidateHashes.a[i].s]
                    expected == SelectSeq(given, MatchesHexPattern)
                IN  /\ Len(resp.body.results) = Len(expected)
                    /\ \A i \in 1..Len(expected) :
                           resp.body.results[i].hash = expected[i]

\* the batch of the design's scenario: "f"*64 against ["0"*64, "not-a-hash"]
\* with threshold 50 has been answered with the one entry for "0"*64
C2_Witness ==
    /\ req.op = "POST /compare-batch"
    /\ req.body.targetHash = Str(AllF)
    /\ req.body.candidateHashes = Arr(<<Str(AllZero), Str(NotAHash)>>)
    /\ req.body.threshold = Num(50)
    /\ resp.status = 200
    /\ Len(resp.body.results) = 1
    /\ resp.body.results[1].hash = AllZero
    /\ resp.body.totalCandidates = 2
    /\ resp.body.validCandidates = 1

\* C3: a request to POST /compare or POST /compare-batch whose threshold is
\* given and is not a non-negative number, or whose hash1, hash2, targetHash
\* or a candidate is no string, or whose candidateHashes is empty or no
\* array, is answered 400 without a call of the comparator.
C3_InvalidInputNeverReachesComparator ==
    /\ (/\ req.op = "POST /compare"
        /\ \/ req.body.hash1.t # "string"
           \/ req.body.hash2.t # "string"
           \/ (req.body.threshold # Undefined /\ ~IsNonNegativeNumber(req.body.threshold)))
       => resp.status = 400 /\ calls = <<>>
    /\ (/\ req.op = "POST /compare-batch"
        /\ \/ req.body.targetHash.t # "string"
           \/ ~IsStringList(req.body.candidateHashes)
           \/ (req.body.threshold # Undefined /\ ~IsNonNegativeNumber(req.body.threshold)))
       => resp.status = 400 /\ calls = <<>>

\* the part of C3 the routes do enforce: hashes, target and candidates that
\* are no strings, an empty or non-array candidate list, and a threshold that
\* is a negative number or NaN
C3_TypeChecksHold ==
    /\ (/\ req.op = "POST /compare"
        /\ \/ req.body.hash1.t # "string"
           \/ req.body.hash2.t # "string"
           \/ (req.body.threshold.t = "number" /\ ~IsNonNegativeNumber(req.body.threshold)))
       => resp.status = 400 /\ calls = <<>>
    /\ (/\ req.op = "POST /compare-batch"
        /\ \/ req.body.targetHash.t # "string"
           \/ ~IsStringList(req.body.candidateHashes)
           \/ (req.body.threshold.t = "number" /\ ~IsNonNegativeNumber(req.body.threshold)))
       => resp.status = 400 /\ calls = <<>>

\* the threshold compareImageHashes works with: the default when none is given
EffectiveThreshold(v) == IF v = Undefined THEN Num(10) ELSE v

\* the greatest integer <= the non-negative fraction v
FloorOf(v) == v.num \div v.den

\* C4: for two valid hashes and a threshold t >= 0, isSimilar is true exactly
\* when distance <= t: a distance equal to t is similar, t + 1 is not, and a
\* fractional t behaves like its floor.
C4_SimilarIffWithinThreshold ==
    /\ (/\ req.op = "compareImageHashes"
        /\ MatchesHexPattern(req.hash1) /\ MatchesHexPattern(req.hash2)
        /\ IsNonNegativeNumber(EffectiveThreshold(req.threshold)))
       => LET t == EffectiveThreshold(req.threshold)
          IN  /\ resp.success
              /\ resp.isSimilar <=> (resp.distance * t.den <= t.num)
              /\ resp.isSimilar <=> (resp.distance <= FloorOf(t))
    /\ (/\ req.op = "POST /compare"
        /\ req.body.hash1.t = "string" /\ MatchesHexPattern(req.body.hash1.s)
        /\ req.body.hash2.t = "string" /\ MatchesHexPattern(req.body.hash2.s)
        /\ IsNonNegativeNumber(EffectiveThreshold(req.body.threshold)))
       => LET t == EffectiveThreshold(req.body.threshold)
          IN  /\ resp.status = 200
              /\ resp.body.isSimilar <=> (resp.body.distance <= FloorOf(t))

\* a distance of exactly 10 under the threshold 10 has been found similar
C4_Witness ==
    /\ req.op = "compareImageHashes"
    /\ req.hash1 = AllZero
    /\ req.hash2 = TenBits
    /\ req.threshold = Num(10)
    /\ resp.distance = 10
    /\ resp.isSimilar

\* C5: for equal-length hex strings calculateHammingDistance returns the
\* number of differing bits of the 4-bit-per-character expansions (letters in
\* either case), between 0 and 4 * length; for valid hashes
\* compareImageHashes returns that distance, in 0..256, and
\* similarity = 1 - distance/256 exactly.
C5_DistanceIsBitDifference ==
    /\ (/\ req.op = "calculateHammingDistance"
        /\ Len(req.hash1) = Len(req.hash2)
        /\ IsHexString(req.hash1) /\ IsHexString(req.hash2))
       => /\ ~resp.threw
          /\ resp.value = BitDifference(req.hash1, req.hash2)
          /\ resp.value \in 0..(4 * Len(req.hash1))
    /\ (/\ req.op = "compareImageHashes"
        /\ MatchesHexPattern(req.hash1) /\ MatchesHexPattern(req.hash2))
       => /\ resp.success
          /\ resp.distance = BitDifference(req.hash1, req.hash2)
          /\ resp.distance \in 0..256
          /\ ~resp.similarity.nan
          /\ resp.similarity.den > 0
          /\ resp.similarity.num * 256 = (256 - resp.distance) * resp.similarity.den

\* two hashes differing in 2 of 256 bits have been compared: distance 2,
\* similarity 127/128 = 0.9921875
C5_Witness ==
    /\ req.op = "compareImageHashes"
    /\ req.hash1 = AllZero
    /\ req.hash2 = TwoBits
    /\ resp.distance = 2
    /\ resp.similarity = Frac(127, 128)

\* C6: calculateHammingDistance(a, b) = calculateHammingDistance(b, a) for
\* valid a and b, and compareImageHashes(a, b, t) and compareImageHashes(b,
\* a, t) return the same distance, similarity and isSimilar.
C6_Symmetric ==
    /\ (/\ req.op = "calculateHammingDistance"
        /\ MatchesHexPattern(req.hash1) /\ MatchesHexPattern(req.hash2))
       => resp = calculateHammingDistance(req.hash2, req.hash1)
    /\ (/\ req.op = "compareImageHashes"
        /\ MatchesHexPattern(req.hash1) /\ MatchesHexPattern(req.hash2))
       => LET swapped == compareImageHashes(req.hash2, req.hash1, req.threshold).result
          IN  /\ resp.distance = swapped.distance
              /\ resp.similarity = swapped.similarity
              /\ resp.isSimilar = swapped.isSimilar

\* the distance of two different valid hashes, one with bits the other lacks,
\* has been computed
C6_Witness ==
    /\ req.op = "calculateHammingDistance"
    /\ req.hash1 = AllZero
    /\ req.hash2 = ElevenBits
    /\ resp.value = 11

\* C7 as stated: a batch request that is well-formed but for a target string
\* not matching the pattern is answered 200 with success = true, no results,
\* validCandidates = 0 and totalCandidates = number of candidates.
C7_InvalidTargetAnswersEmpty ==
    (/\ req.op = "POST /compare-batch"
     /\ req.body.targetHash.t = "string"
     /\ ~MatchesHexPattern(req.body.targetHash.s)
     /\ IsStringList(req.body.candidateHashes)
     /\ IsNonNegativeNumber(EffectiveThreshold(req.body.threshold)))
    => /\ resp.status = 200
       /\ resp.body.success
       /\ resp.body.results = <<>>
       /\ resp.body.validCandidates = 0
       /\ resp.body.totalCandidates = Len(req.body.candidateHashes.a)

\* C7 as amended: compareHashWithCandidates returns an empty list, without a
\* call of calculateHammingDistance, for every target not matching the
\* pattern; POST /compare-batch answers 200 with success = true, no results,
\* validCandidates = 0 and totalCandidates = number of candidates when the
\* target is a non-empty string not matching the pattern and the rest of the
\* request is well-formed (an empty target is answered 400).
C7_NonEmptyInvalidTargetAnswersEmpty ==
    /\ (req.op = "compareHashWithCandidates" /\ ~MatchesHexPattern(req.targetHash))
       => resp.results = <<>> /\ calls = <<>>
    /\ (/\ req.op = "POST /compare-batch"
        /\ req.body.targetHash.t = "string"
        /\ req.body.targetHash.s # <<>>
        /\ ~MatchesHexPattern(req.body.targetHash.s)
        /\ IsStringList(req.body.candidateHashes)
        /\ IsNonNegativeNumber(EffectiveThreshold(req.body.threshold)))
       => /\ resp.status = 200
          /\ resp.body.success
          /\ resp.body.results = <<>>
          /\ resp.body.validCandidates = 0
          /\ resp.body.totalCandidates = Len(req.body.candidateHashes.a)
          /\ HammingCalls = <<>>
    /\ (/\ req.op = "POST /compare-batch"
        /\ req.body.targetHash = Str(<<>>))
       => resp.status = 400

\* a batch with the target "not-a-hash" and two valid candidates has been
\* answered with success and no results
C7_Witness ==
    /\ req.op = "POST /compare-batch"
    /\ req.body.targetHash = Str(NotAHash)
    /\ req.body.candidateHashes = Arr(<<Str(AllZero), Str(TwoBits)>>)
    /\ resp.status = 200
    /\ resp.body.results = <<>>
    /\ resp.body.totalCandidates = 2

\* both libraries succeed on the buffer
Hashable(buffer) == buffer.sharp = "ok" /\ buffer.hashing = "ok"

\* multer stores every part of the upload
Stored(parts) ==
    \A i \in 1..Len(parts) :
        /\ SubSeq(parts[i].mimetype, 1, 6) = <<"i", "m", "a", "g", "e", "/">>
        /\ ~parts[i].oversize

\* C8: a batch hash of n stored items (1 <= n <= 1000) yields n entries in
\* input order, each with its item's filename; an item that cannot be decoded
\* or hashed is reported with success = false and an error message and
\* changes no other item's entry; totalFiles = n = successfulFiles +
\* failedFiles; calculateImageHash resolves to a failure result and never
\* rejects.
C8_BatchReportsEveryItem ==
    /\ (req.op = "calculateImageHash")
       => /\ ~resp.rejected
          /\ resp.value.success = Hashable(req.imageBuffer)
          /\ ~resp.value.success => resp.value.error # ""
    /\ (/\ req.op = "POST /hash-batch"
        /\ req.multipart
        /\ Len(req.parts) \in 1..1000
        /\ Stored(req.parts))
       => /\ resp.status = 200
          /\ Len(resp.body.results) = Len(req.parts)
          /\ \A i \in 1..Len(req.parts) :
                LET entry == resp.body.results[i]
                    part == req.parts[i]
                IN  /\ part.originalname # "" => entry.filename = part.originalname
                    /\ entry.success = Hashable(part.buffer)
                    /\ entry.success => entry.hash = part.buffer.hash
                    /\ ~entry.success => entry.error # ""
          /\ resp.body.totalFiles = Len(req.parts)
          /\ resp.body.successfulFiles =
                Cardinality({i \in 1..Len(req.parts) : Hashable(req.parts[i].buffer)})
          /\ resp.body.totalFiles = resp.body.successfulFiles + resp.body.failedFiles
          /\ Len(calls) = Len(req.parts)

\* the batch of the design's scenario: three images, the second corrupt
C8_Witness ==
    /\ req.op = "POST /hash-batch"
    /\ Len(req.parts) = 3
    /\ req.parts[1] = GoodPart
    /\ req.parts[2] = CorruptPart
    /\ req.parts[3].originalname = "b.png"
    /\ resp.status = 200
    /\ Len(resp.body.results) = 3
    /\ resp.body.results[1].success
    /\ ~resp.body.results[2].success
    /\ resp.body.results[2].filename = "c.png"
    /\ resp.body.results[3].success
    /\ resp.body.totalFiles = 3
    /\ resp.body.successfulFiles = 2
    /\ resp.body.failedFiles = 1

\* C9: a request to POST /hash-batch with more than 100 files is answered 400
\* with success = false and none of its files is hashed.
C9_AtMostHundredFiles ==
    (req.op = "POST /hash-batch" /\ Len(req.parts) > 100)
    => /\ resp.status = 400
       /\ resp.body.success = FALSE
       /\ calls = <<>>

\* the limit the code does enforce: more than 1000 files are answered 400
\* and none is hashed
C9_AtMostThousandFiles ==
    (req.op = "POST /hash-batch" /\ Len(req.parts) > 1000)
    => /\ resp.status = 400
       /\ resp.body.success = FALSE
       /\ calls = <<>>

ComparatorOps ==
    {"compareImageHashes", "compareHashWithCandidates", "POST /compare",
     "POST /compare-batch"}

\* C10: compareImageHashes and compareHashWithCandidates call
\* calculateHammingDistance only with two strings matching the pattern, so
\* the same-length error never comes out of them, and every entry
\* compareHashWithCandidates returns has a distance in 0..256 and a
\* similarity in [0, 1], never the failure values.
C10_HammingOnlyOnValidHashes ==
    /\ req.op \in ComparatorOps
       => \A i \in 1..Len(HammingCalls) :
              /\ MatchesHexPattern(HammingCalls[i].a)
              /\ MatchesHexPattern(HammingCalls[i].b)
    /\ (req.op = "compareImageHashes" /\ ~resp.success)
       => resp.error # "Hashes must have the same length"
    /\ (req.op = "POST /compare" /\ resp.status # 200)
       => resp.body.error # "Hashes must have the same length"
    /\ LET entries ==
               IF req.op = "compareHashWithCandidates" THEN resp.results
               ELSE IF req.op = "POST /compare-batch" /\ resp.status = 200
                    THEN resp.body.results
               ELSE <<>>
       IN  \A i \in 1..Len(entries) :
               /\ entries[i].distance \in 0..256
               /\ ~entries[i].similarity.nan
               /\ entries[i].similarity.num >= 0
               /\ entries[i].similarity.num <= entries[i].similarity.den
               /\ entries[i].similarity.num * 256 =
                      (256 - entries[i].distance) * entries[i].similarity.den

\* a batch with a valid target, a candidate that is no hash and a valid one
\* has been compared with one call of calculateHammingDistance
C10_Witness ==
    /\ req.op = "compareHashWithCandidates"
    /\ req.targetHash = AllF
    /\ req.candidateHashes = <<NotAHash, AllZero>>
    /\ Len(HammingCalls) = 1
    /\ HammingCalls[1].a = AllF
    /\ HammingCalls[1].b = AllZero
    /\ Len(resp.results) = 1
    /\ resp.results[1].distance = 256
    /\ resp.results[1].similarity = Num(0)

====
